---- MODULE Spec2Model ----
(***************************************************************************)
(* Model of github.com/mjl-/log: package fur (an error type carrying tags) *)
(* and package log (a logger that unwraps errors and prints their tags,    *)
(* as a text line or as a JSON document).                                  *)
(*                                                                         *)
(* Strings are sequences of tokens; the newline is the token "\n" and is   *)
(* never part of another token.                                            *)
(***************************************************************************)
EXTENDS Integers, Sequences, FiniteSets, TLC

VARIABLES
    tagmaps,  \* heap of fur.Tags maps; tagmaps[i] is the map made by the i-th constructor call
    errs,     \* the fur.Error values the program holds; errs[i] came from the i-th constructor call
    l,        \* the Logger: fields out, prefix, flags
    out,      \* per writer, the Write calls it received from the log calls in progress or just returned
    call,     \* the log call that just returned: its arguments, its document, its return value
              \* (l and tagmaps are still as the call saw them: every other step forgets it)
    pc,       \* per thread, its position in Logger.write / Logger.writeJSON
    buf       \* per thread, the bytes it is about to hand to l.out.Write, and its rendering

vars == <<tagmaps, errs, l, out, call, pc, buf>>

----------------------------------------------------------------------------
(* Bounds *)

MaxLinks == 2      \* constructor calls (fur.Errorf, fur.New) in one behaviour
NThreads == 2      \* threads that log concurrently

(* Flags, src/log.go:88-98 *)
FlagTimestamp == 1
FlagUTC == 2
FlagFile == 4
FlagPath == 8
FlagJSON == 16

HasFlag(flags, f) == (flags \div f) % 2 = 1

----------------------------------------------------------------------------
(* Values *)

StrVal(s) == [t |-> "str", s |-> s, n |-> 0]
IntVal(n) == [t |-> "int", s |-> <<>>, n |-> n]
ChanVal == [t |-> "chan", s |-> <<>>, n |-> 0]    \* a Go channel: json.Marshal rejects it

\* The tags the program attaches: a channel under "reply", a number under "level"
TagInputs == {<<"reply", ChanVal>>, <<"level", IntVal(1)>>, <<"level", IntVal(2)>>}

Nil == [kind |-> "nil"]
rootErr == [kind |-> "base", msg |-> <<"timeout">>]     \* errors.New("timeout"), not a Tagger

\* xerrors.wrapError and xerrors.noWrapError
WrapError(msg, err) == [kind |-> "wrap", msg |-> msg, err |-> err]
NoWrapError(msg) == [kind |-> "nowrap", msg |-> msg]

\* fur.Error{Err, tags}; tags is a reference into tagmaps
Error(Err, tags) == [kind |-> "fur", Err |-> Err, tags |-> tags]

\* A format string: its text, and whether it ends in ": %w"
Plain(text) == [text |-> text, w |-> FALSE]
Wrapf(text) == [text |-> text, w |-> TRUE]

\* xerrors.Errorf(format, arg): wraps arg when the format ends in ": %w" and arg is an error
XErrorf(format, arg) ==
    IF format.w
    THEN IF arg # Nil
         THEN WrapError(format.text, arg)
         ELSE NoWrapError(format.text \o <<": ", "%!w(<nil>)">>)
    ELSE NoWrapError(format.text)

\* err.Error()
RECURSIVE ErrorString(_)
ErrorString(e) ==
    CASE e.kind = "base" -> e.msg
      [] e.kind = "nowrap" -> e.msg
      [] e.kind = "wrap" -> e.msg \o <<": ">> \o ErrorString(e.err)
      [] e.kind = "fur" -> ErrorString(e.Err)

\* xerrors.Unwrap(err), and fur.Error.Unwrap
RECURSIVE XUnwrap(_), Unwrap(_)
Unwrap(e) == XUnwrap(e.Err)

XUnwrap(err) ==
    CASE err.kind = "wrap" -> err.err
      [] err.kind = "fur" -> Unwrap(err)
      [] OTHER -> Nil

\* fur.Error.Tags
Tags(e, maps) == maps[e.tags]

\* Tag as it would be if every fur.Error shared one Tags map
Tag_EveryMap(e, key, value, maps) ==
    [m \in DOMAIN maps |->
        [k \in DOMAIN maps[m] \cup {key} |-> IF k = key THEN value ELSE maps[m][k]]]

\* fur.Error.Tag: e.tags[key] = value, on the map e refers to
Tag(e, key, value, maps) ==
    [maps EXCEPT ![e.tags] =
        [k \in DOMAIN @ \cup {key} |-> IF k = key THEN value ELSE @[k]]]

\* fur.Errorf and fur.New; m is the reference of the fresh Tags{} map
Errorf(format, arg, m) == Error(XErrorf(format, arg), m)
New(err, m) == Error(err, m)

EmptyTags == [k \in {} |-> Nil]

----------------------------------------------------------------------------
(* Package fur: the operations of the program that builds errors *)

Idle == \A t \in DOMAIN pc : pc[t] = "idle"
NoCall == [op |-> "none"]
NoWrites == [w \in DOMAIN out |-> <<>>]

\* The fur.Error values the program can pass where an error is expected
ErrArgs == {errs[i] : i \in DOMAIN errs}

Forget == /\ out' = NoWrites
          /\ call' = NoCall
          /\ UNCHANGED <<pc, buf>>

DoErrorf(format, arg) ==
    /\ Idle
    /\ Len(errs) < MaxLinks
    /\ errs' = Append(errs, Errorf(format, arg, Len(tagmaps) + 1))
    /\ tagmaps' = Append(tagmaps, EmptyTags)
    /\ UNCHANGED l
    /\ Forget

DoNew(err) ==
    /\ Idle
    /\ Len(errs) < MaxLinks
    /\ errs' = Append(errs, New(err, Len(tagmaps) + 1))
    /\ tagmaps' = Append(tagmaps, EmptyTags)
    /\ UNCHANGED l
    /\ Forget

DoTag(i, key, value) ==
    /\ Idle
    /\ i \in DOMAIN errs
    /\ tagmaps' = Tag(errs[i], key, value, tagmaps)
    /\ UNCHANGED <<errs, l>>
    /\ Forget

----------------------------------------------------------------------------
(* Package log: platform services the logger consumes *)

Writers == {"stderr", "buffer"}      \* os.Stderr, and another io.Writer

\* time.Now(), Time.UTC() and Time.Format(time.RFC3339Nano)
Times == {"09:00:00.000000001", "09:00:00.000000002"}
NoTime == "never"

\* The clock readings a call can get: the clock is read only under FlagTimestamp
Clock(flags) == IF HasFlag(flags, FlagTimestamp) THEN Times ELSE {NoTime}
Now(clock) == [clock |-> clock, loc |-> "Local"]
UTC(now) == [now EXCEPT !.loc = "UTC"]
Format(now) == <<now.clock, IF now.loc = "UTC" THEN "Z" ELSE "+01:00">>

\* The call stack: a frame is a source position
Frame(file, line) == [file |-> file, line |-> line]
callSite == Frame(<<"/app/", "main.go">>, "10")      \* the program's call of Printf
PrintfFrame == Frame(<<"/log/", "log.go">>, "127")
writeFrame == Frame(<<"/log/", "log.go">>, "159")
writeJSONFrame == Frame(<<"/log/", "log.go">>, "210")

\* runtime.Caller(skip) asked by the function of the innermost frame stack[1]
Caller(skip, stack) ==
    IF skip + 1 <= Len(stack)
    THEN [ok |-> TRUE, file |-> stack[skip + 1].file, line |-> stack[skip + 1].line]
    ELSE [ok |-> FALSE, file |-> <<>>, line |-> ""]

\* path.Split(file), second result
PathSplit(file) == <<file[Len(file)]>>

\* strings.HasSuffix(s, "\n")
HasSuffix(s, tok) == Len(s) > 0 /\ s[Len(s)] = tok

\* fmt's %v of a tag value
FormatV(v) ==
    CASE v.t = "int" -> <<ToString(v.n)>>
      [] v.t = "str" -> v.s
      [] v.t = "chan" -> <<"0xc000010000">>

----------------------------------------------------------------------------
(* The unwrap loop and the tags it meets *)

\* The values err takes in `for ; err != nil; err = xerrors.Unwrap(err)`
RECURSIVE Chain(_)
Chain(err) == IF err = Nil THEN <<>> ELSE <<err>> \o Chain(XUnwrap(err))

\* err.(fur.Tagger)
IsTagger(err) == err.kind = "fur"

\* `for k, v := range e.Tags()`: Go visits the keys of a map in an unspecified order
RangeOrders(m) ==
    LET n == Cardinality(DOMAIN m)
    IN { [i \in 1..n |-> <<ks[i], m[ks[i]]>>] :
            ks \in { f \in [1..n -> DOMAIN m] : \A i, j \in 1..n : i # j => f[i] # f[j] } }

\* The tags of the whole chain gathered first and ranged over in one go
Walks_Gathered(chain, maps) ==
    LET pairs == { <<i, k>> \in (DOMAIN chain) \X {"level", "reply"} :
                      IsTagger(chain[i]) /\ k \in DOMAIN Tags(chain[i], maps) }
        n == Cardinality(pairs)
    IN { [j \in 1..n |-> <<f[j][2], Tags(chain[f[j][1]], maps)[f[j][2]]>>] :
            f \in { g \in [1..n -> pairs] : \A x, y \in 1..n : x # y => g[x] # g[y] } }

\* The sequences of key/value pairs the loop over the chain can meet
RECURSIVE Walks(_, _)
Walks(chain, maps) ==
    IF chain = <<>> THEN { <<>> }
    ELSE LET rest == Walks(Tail(chain), maps)
         IN IF IsTagger(Head(chain))
            THEN { h \o t : h \in RangeOrders(Tags(Head(chain), maps)), t \in rest }
            ELSE rest

\* fmt.Fprintf(b, "%s%s=%v", prefix, k, v) for each pair, prefix " (" first and " " after
RECURSIVE TagText(_, _)
TagText(kv, first) ==
    IF kv = <<>> THEN <<>>
    ELSE <<IF first THEN " (" ELSE " ", Head(kv)[1], "=">> \o FormatV(Head(kv)[2])
            \o TagText(Tail(kv), FALSE)

----------------------------------------------------------------------------
(* encoding/json *)

\* Every key a document can hold, in the byte order json.Marshal sorts map keys in
KeyOrder == <<"file", "level", "message", "reply", "timestamp">>

Put(o, key, value) == [k \in DOMAIN o \cup {key} |-> IF k = key THEN value ELSE o[k]]

\* A JSON string literal: the newline is escaped
Quote(s) == <<"\"">> \o [i \in 1..Len(s) |-> IF s[i] = "\n" THEN "\\n" ELSE s[i]] \o <<"\"">>

Encode(v) ==
    CASE v.t = "int" -> <<ToString(v.n)>>
      [] v.t = "str" -> Quote(v.s)

RECURSIVE Fields(_, _, _)
Fields(o, i, first) ==
    IF i > Len(KeyOrder) THEN <<>>
    ELSE IF KeyOrder[i] \in DOMAIN o
         THEN (IF first THEN <<>> ELSE <<",">>)
                \o Quote(<<KeyOrder[i]>>) \o <<":">> \o Encode(o[KeyOrder[i]])
                \o Fields(o, i + 1, FALSE)
         ELSE Fields(o, i + 1, first)

\* json.Marshal(o): an error for a value it cannot encode, else one line
Marshal(o) ==
    IF \E k \in DOMAIN o : o[k].t = "chan"
    THEN [err |-> <<"json: unsupported type: chan int">>, buf |-> <<>>]
    ELSE [err |-> <<>>, buf |-> <<"{">> \o Fields(o, 1, TRUE) \o <<"}">>]

----------------------------------------------------------------------------
(* Logger *)

LogNew(w, prefix, flags) == [out |-> w, prefix |-> prefix, flags |-> flags]

\* What a call of write did: the Write calls on l.out, what it printed on os.Stderr, what
\* it returns; s is the text it built, o the document
Result(writes, diag, ret, o) == [writes |-> writes, diag |-> diag, ret |-> ret, o |-> o]

Timestamp(flags, now) ==
    Format(IF HasFlag(flags, FlagUTC) THEN UTC(now) ELSE now)

Location(flags, calldepth, stack) ==
    IF HasFlag(flags, FlagFile) \/ HasFlag(flags, FlagPath)
    THEN LET c == Caller(calldepth, stack)
         IN IF c.ok
            THEN (IF ~HasFlag(flags, FlagPath) THEN PathSplit(c.file) ELSE c.file)
                    \o <<":", c.line, ": ">>
            ELSE <<>>
    ELSE <<>>

\* o[k] = v for the tags of every Tagger of the chain, outer link first
RECURSIVE MergeTags(_, _, _)
MergeTags(o, chain, maps) ==
    IF chain = <<>> THEN o
    ELSE IF IsTagger(Head(chain))
         THEN LET m == Tags(Head(chain), maps)
              IN MergeTags([k \in DOMAIN o \cup DOMAIN m |->
                                IF k \in DOMAIN m THEN m[k] ELSE o[k]],
                           Tail(chain), maps)
         ELSE MergeTags(o, Tail(chain), maps)

\* writeJSON without the return after a failed json.Marshal
writeJSON_NoReturn(lg, format, arg, calldepth, now, stack, maps) ==
    LET err == XErrorf(format, arg)
        msg == ErrorString(err)
        o1 == [k \in {"message"} |-> StrVal(msg)]
        o2 == IF HasFlag(lg.flags, FlagTimestamp)
              THEN Put(o1, "timestamp", StrVal(Timestamp(lg.flags, now)))
              ELSE o1
        loc == Location(lg.flags, calldepth, stack)
        o3 == IF loc # <<>> THEN Put(o2, "file", StrVal(loc)) ELSE o2
        cause == XUnwrap(err)
        o4 == Put(o3, "level", IF cause = Nil THEN StrVal(<<"info">>) ELSE StrVal(<<"error">>))
        o == MergeTags(o4, Chain(cause), maps)
        m == Marshal(o)
    IN { Result(<<m.buf \o <<"\n">>>>,
                IF m.err # <<>>
                THEN <<(<<"marshal json for message ">> \o Quote(msg) \o <<": ">> \o m.err
                            \o <<"\n">>)>>
                ELSE <<>>,
                m.buf, o) }

\* Logger.writeJSON
writeJSON(lg, format, arg, calldepth, now, stack, maps) ==
    LET err == XErrorf(format, arg)
        msg == ErrorString(err)
        o1 == [k \in {"message"} |-> StrVal(msg)]
        o2 == IF HasFlag(lg.flags, FlagTimestamp)
              THEN Put(o1, "timestamp", StrVal(Timestamp(lg.flags, now)))
              ELSE o1
        loc == Location(lg.flags, calldepth, stack)
        o3 == IF loc # <<>> THEN Put(o2, "file", StrVal(loc)) ELSE o2
        cause == XUnwrap(err)
        o4 == Put(o3, "level", IF cause = Nil THEN StrVal(<<"info">>) ELSE StrVal(<<"error">>))
        o == MergeTags(o4, Chain(cause), maps)
        m == Marshal(o)
    IN IF m.err # <<>>
       THEN { Result(<<>>,
                     <<(<<"marshal json for message ">> \o Quote(msg) \o <<": ">> \o m.err
                            \o <<"\n">>)>>,
                     msg, o) }
       ELSE { Result(<<m.buf \o <<"\n">>>>, <<>>, m.buf, o) }

\* Logger.write, the timestamp of a text line
TimePart(flags, now) ==
    IF HasFlag(flags, FlagTimestamp)
    THEN Timestamp(flags, now) \o <<" ">>
    ELSE <<>>

\* The newline appended without looking at the text
EndLine_Always(b) == b \o <<"\n">>

\* Logger.write, the ending newline
EndLine(b) == IF ~HasSuffix(b, "\n") THEN b \o <<"\n">> ELSE b

\* The line and its newline handed to the sink in two Write calls
WriteLine_Split(s) == <<SubSeq(s, 1, Len(s) - 1), <<s[Len(s)]>>>>

\* Logger.write, l.out.Write([]byte(s)): the Write calls made for s
WriteLine(s) == <<s>>

\* Logger.write, text mode: one result for every order the tag maps can be ranged in
writeText(lg, format, arg, calldepth, now, stack, maps) ==
    LET err == XErrorf(format, arg)
    IN { LET b == TimePart(lg.flags, now) \o lg.prefix
                    \o Location(lg.flags, calldepth, stack)
                    \o ErrorString(err) \o TagText(kv, TRUE)
                    \o (IF kv # <<>> THEN <<")">> ELSE <<>>)
             s == EndLine(b)
         IN Result(WriteLine(s), <<>>, s, [k \in {} |-> Nil])
         : kv \in Walks(Chain(XUnwrap(err)), maps) }

\* Logger.write
write(lg, format, arg, calldepth, now, stack, maps) ==
    IF HasFlag(lg.flags, FlagJSON)
    THEN writeJSON(lg, format, arg, calldepth + 1, now, <<writeJSONFrame>> \o stack, maps)
    ELSE writeText(lg, format, arg, calldepth, now, stack, maps)

\* What the writers receive from a call: its Write calls on l.out, its diagnostics on os.Stderr
Received(lg, r) ==
    [w \in Writers |-> (IF w = lg.out THEN r.writes ELSE <<>>)
                        \o (IF w = "stderr" THEN r.diag ELSE <<>>)]

\* log.New
DoLogNew(w, prefix, flags) ==
    /\ Idle
    /\ l' = LogNew(w, prefix, flags)
    /\ UNCHANGED <<tagmaps, errs>>
    /\ Forget

SetFlags(flags) ==
    /\ Idle
    /\ l' = [l EXCEPT !.flags = flags]
    /\ UNCHANGED <<tagmaps, errs>>
    /\ Forget

SetPrefix(prefix) ==
    /\ Idle
    /\ l' = [l EXCEPT !.prefix = prefix]
    /\ UNCHANGED <<tagmaps, errs>>
    /\ Forget

SetOutput(w) ==
    /\ Idle
    /\ l' = [l EXCEPT !.out = w]
    /\ UNCHANGED <<tagmaps, errs>>
    /\ Forget

PrintfStack == <<writeFrame, PrintfFrame, callSite>>

\* Logger.Printf, run to completion by a program with one thread
Printf(format, arg, now) ==
    /\ Idle
    /\ \E r \in write(l, format, arg, 2, now, PrintfStack, tagmaps) :
          /\ out' = Received(l, r)
          /\ call' = [op |-> "Printf", format |-> format, arg |-> arg,
                      ret |-> r.ret, o |-> r.o, diag |-> r.diag]
    /\ UNCHANGED <<tagmaps, errs, l, pc, buf>>

\* Logger.Printf on thread t, up to the call of l.out.Write: the line is built, and a
\* failed json.Marshal is reported on os.Stderr and ends the call
Begin(t, format, arg, now) ==
    /\ pc[t] = "idle"
    /\ \E r \in write(l, format, arg, 2, now, PrintfStack, tagmaps) :
          /\ buf' = [buf EXCEPT ![t] = [r |-> r, pending |-> r.writes]]
          /\ pc' = [pc EXCEPT ![t] = IF r.writes = <<>> THEN "done" ELSE "Write"]
          /\ out' = [out EXCEPT !["stderr"] = @ \o r.diag]
    /\ UNCHANGED <<tagmaps, errs, l, call>>

\* A Write that hands the sink one token at a time
WriteStep_Split(t) ==
    /\ pc[t] = "Write"
    /\ LET s == buf[t].pending[1]
       IN /\ out' = [out EXCEPT ![l.out] = Append(@, <<Head(s)>>)]
          /\ buf' = [buf EXCEPT ![t].pending = IF Len(s) = 1 THEN <<>> ELSE <<Tail(s)>>]
          /\ pc' = [pc EXCEPT ![t] = IF Len(s) = 1 THEN "done" ELSE "Write"]
    /\ UNCHANGED <<tagmaps, errs, l, call>>

\* l.out.Write(s) on thread t, the sink taking the bytes in one piece, and the return
WriteStep(t) ==
    /\ pc[t] = "Write"
    /\ out' = [out EXCEPT ![l.out] = @ \o buf[t].pending]
    /\ buf' = [buf EXCEPT ![t].pending = <<>>]
    /\ pc' = [pc EXCEPT ![t] = "done"]
    /\ UNCHANGED <<tagmaps, errs, l, call>>

----------------------------------------------------------------------------
(* The program with one thread *)

ErrorfFormats == {Plain(<<"e">>), Wrapf(<<"connect">>)}
PrintfFormats == {Plain(<<"m">>), Plain(<<"m", "\n">>), Plain(<<"m", "\n", "\n">>),
                  Wrapf(<<"open">>)}
LoggerArgs == {<<"stderr", <<>>, 0>>,
               <<"stderr", <<>>, FlagJSON>>,
               <<"buffer", <<"pre ">>, FlagTimestamp + FlagFile>>,
               <<"buffer", <<"pre ">>, FlagTimestamp + FlagUTC + FlagPath + FlagJSON>>}

\* The arguments a format takes: an error (or nil) for ": %w", none otherwise
ArgsOf(format, pool) == IF format.w THEN pool ELSE {Nil}

Init ==
    /\ tagmaps = <<>>
    /\ errs = <<>>
    /\ l = LogNew("stderr", <<>>, 0)
    /\ out = [w \in Writers |-> <<>>]
    /\ call = NoCall
    /\ pc = [t \in 1..NThreads |-> "idle"]
    /\ buf = [t \in 1..NThreads |-> Nil]

Next ==
    \/ \E f \in ErrorfFormats : \E a \in ArgsOf(f, ErrArgs) : DoErrorf(f, a)
    \/ \E e \in ErrArgs : DoNew(e)
    \/ \E i \in DOMAIN errs, kv \in TagInputs : DoTag(i, kv[1], kv[2])
    \/ \E a \in LoggerArgs : DoLogNew(a[1], a[2], a[3])
    \/ \E f \in PrintfFormats :
         \E a \in ArgsOf(f, ErrArgs \cup {rootErr, Nil}), now \in Clock(l.flags) :
            Printf(f, a, Now(now))

Spec == Init /\ [][Next]_vars

----------------------------------------------------------------------------
(* The program that only builds and tags errors *)

NextFur ==
    \/ \E f \in ErrorfFormats : \E a \in ArgsOf(f, ErrArgs \cup {rootErr}) : DoErrorf(f, a)
    \/ \E e \in ErrArgs \cup {rootErr} : DoNew(e)
    \/ \E i \in DOMAIN errs, kv \in TagInputs : DoTag(i, kv[1], kv[2])

SpecFur == Init /\ [][NextFur]_vars

----------------------------------------------------------------------------
(* The program whose threads log on one Logger *)

ConcFlags == {0, FlagJSON}
ConcFormats == {Plain(<<"m">>), Wrapf(<<"open">>)}
ConcPrefixes == {<<"pre ">>}
ConcTags == {<<"reply", ChanVal>>}

NextConc ==
    \/ DoErrorf(Plain(<<"e">>), Nil)
    \/ \E i \in DOMAIN errs, kv \in ConcTags : DoTag(i, kv[1], kv[2])
    \/ \E f \in ConcFlags : SetFlags(f)
    \/ \E p \in ConcPrefixes : SetPrefix(p)
    \/ \E w \in Writers : SetOutput(w)
    \/ \E t \in DOMAIN pc, f \in ConcFormats :
         \E a \in ArgsOf(f, ErrArgs), now \in Clock(l.flags) :
            Begin(t, f, a, Now(now))
    \/ \E t \in DOMAIN pc : WriteStep(t)

SpecConc == Init /\ [][NextConc]_vars

----------------------------------------------------------------------------
(* Vocabulary of the properties *)

Called == call.op = "Printf"
TextMode == Called /\ ~HasFlag(l.flags, FlagJSON)
JSONMode == Called /\ HasFlag(l.flags, FlagJSON)

\* The formatted message of the call, and its text
Formatted == XErrorf(call.format, call.arg)
Message == ErrorString(Formatted)

\* What the configured sink received from the call
Sink == out[l.out]

\* json.Marshal rejected the document of the call
MarshalFailed == JSONMode /\ Marshal(call.o).err # <<>>

\* The error a link was made from: the argument of fur.New, the %w operand of fur.Errorf
LinkCause(e) ==
    IF e.kind # "fur" THEN Nil
    ELSE IF e.Err.kind = "wrap" THEN e.Err.err
    ELSE IF e.Err.kind = "nowrap" THEN Nil
    ELSE e.Err

\* The chain of links below and including e, outer link first
RECURSIVE Links(_)
Links(e) == IF e = Nil THEN <<>> ELSE <<e>> \o Links(LinkCause(e))

\* The tags of link i of a chain, as the call saw them
TagsOf(ch, i) == IF IsTagger(ch[i]) THEN Tags(ch[i], tagmaps) ELSE EmptyTags

\* The places of key k in the tag segment of a text line
Places(s, k) == { i \in 1..(Len(s) - 1) : s[i] = k /\ s[i + 1] = "=" }

Occurs(s, pat) ==
    \E i \in 1..(Len(s) - Len(pat) + 1) : SubSeq(s, i, i + Len(pat) - 1) = pat

\* The JSON document s has field key with the encoded value enc
HasField(s, key, enc) ==
    \E sep \in {",", "}"} : Occurs(s, Quote(<<key>>) \o <<":">> \o enc \o <<sep>>)

EndsInTwoNewlines(s) == Len(s) >= 2 /\ s[Len(s)] = "\n" /\ s[Len(s) - 1] = "\n"

----------------------------------------------------------------------------
(* C1 *)

\* C1: in text mode, when an outer link of the logged chain carries tags T1 and a deeper
\* link carries tags T2 with disjoint keys, the line holds every key of T1 and of T2, and
\* every key of T1 comes before every key of T2.
C1_OuterTagsBeforeInnerTags ==
    (TextMode /\ call.format.w /\ call.arg # Nil /\ Len(Sink) = 1) =>
        LET ch == Links(call.arg)
            line == Sink[1]
        IN \A a, b \in DOMAIN ch :
              LET T1 == DOMAIN TagsOf(ch, a)
                  T2 == DOMAIN TagsOf(ch, b)
              IN (a < b /\ T1 # {} /\ T2 # {} /\ T1 \cap T2 = {}) =>
                    \A k1 \in T1, k2 \in T2 :
                        /\ Places(line, k1) # {}
                        /\ Places(line, k2) # {}
                        /\ \A p1 \in Places(line, k1), p2 \in Places(line, k2) : p1 < p2

----------------------------------------------------------------------------
(* C2 *)

\* C2: in JSON mode the "level" field of the written document is "info" if and only if
\* the formatted message has no cause, and "error" otherwise, whatever the tag keys.
C2_LevelFollowsCause ==
    (JSONMode /\ ~MarshalFailed /\ Len(Sink) = 1) =>
        /\ HasField(Sink[1], "level", Quote(<<"info">>)) <=> (XUnwrap(Formatted) = Nil)
        /\ HasField(Sink[1], "level", Quote(<<"error">>)) <=> (XUnwrap(Formatted) # Nil)

----------------------------------------------------------------------------
(* C3 *)

\* C3 as stated: every log call performs exactly one Write on the configured sink.
C3_ExactlyOneWrite ==
    Called => Len(Sink) = 1

\* C3 amended: a log call performs exactly one Write on the configured sink and none
\* elsewhere, except a JSON-mode call whose json.Marshal fails: that call makes no Write
\* through the logger and prints one diagnostic on os.Stderr.
C3_OneWriteUnlessMarshalFails ==
    Called =>
        IF MarshalFailed
        THEN /\ Len(call.diag) = 1
             /\ out = [w \in Writers |-> IF w = "stderr" THEN call.diag ELSE <<>>]
        ELSE /\ Len(Sink) = 1
             /\ \A w \in Writers \ {l.out} : out[w] = <<>>

C3_Witness ==
    /\ MarshalFailed
    /\ l.out = "buffer"
    /\ Sink = <<>>
    /\ Len(out["stderr"]) = 1

----------------------------------------------------------------------------
(* C5 *)

----------------------------------------------------------------------------
(* C6 *)

\* C6: Unwrap() of a fur.Error returns its immediate cause: for fur.New(err) the argument
\* err itself, and for fur.Errorf("outer: %w", inner) a value whose message is inner's.
C6_UnwrapReturnsCause ==
    \A i \in DOMAIN errs :
        LET e == errs[i]
        IN /\ (e.Err.kind \in {"fur", "base"}) => Unwrap(e) = e.Err
           /\ (e.Err.kind = "wrap") =>
                /\ Unwrap(e) # Nil
                /\ ErrorString(Unwrap(e)) = ErrorString(e.Err.err)

----------------------------------------------------------------------------
(* C7 *)

\* No link of the logged chain carries more than one tag
AtMostOneTagPerLink ==
    LET ch == Links(call.arg)
    IN \A i \in DOMAIN ch : Cardinality(DOMAIN TagsOf(ch, i)) <= 1

SameCall ==
    /\ call.op = "Printf" /\ call'.op = "Printf"
    /\ l' = l
    /\ tagmaps' = tagmaps
    /\ call'.format = call.format
    /\ call'.arg = call.arg
    /\ ~HasFlag(l.flags, FlagTimestamp)

----------------------------------------------------------------------------
(* C8 *)

\* C8: in JSON mode, when an outer link and a deeper link of the logged chain both set
\* the same tag key, the document holds the value of the deeper link.
C8_InnerValueWins ==
    (JSONMode /\ ~MarshalFailed /\ call.format.w /\ call.arg # Nil /\ Len(Sink) = 1) =>
        LET ch == Links(call.arg)
        IN \A a, b \in DOMAIN ch :
              \A k \in DOMAIN TagsOf(ch, a) \cap DOMAIN TagsOf(ch, b) :
                 (a < b /\ \A c \in DOMAIN ch : c > b => k \notin DOMAIN TagsOf(ch, c)) =>
                    HasField(Sink[1], k, Encode(TagsOf(ch, b)[k]))

----------------------------------------------------------------------------
(* C9 *)

\* C9 as stated: the text written by a text-mode call ends with exactly one newline,
\* also when the formatted message already ends in one or more newlines.
C9_ExactlyOneNewline ==
    (TextMode /\ Len(Sink) = 1) =>
        /\ HasSuffix(Sink[1], "\n")
        /\ ~EndsInTwoNewlines(Sink[1])

\* C9 amended: the text written by a text-mode call ends with a newline, and with
\* exactly one unless the line built before the newline check already ends in two or
\* more (a formatted message that ends in two or more newlines, with no tags after it).
C9_EndsWithNewline ==
    TextMode =>
        /\ Len(Sink) = 1
        /\ HasSuffix(Sink[1], "\n")
        /\ EndsInTwoNewlines(Sink[1]) =>
              (EndsInTwoNewlines(Message) /\ Places(Sink[1], "level") = {}
                    /\ Places(Sink[1], "reply") = {})

C9_Witness ==
    /\ TextMode
    /\ HasSuffix(Message, "\n")
    /\ ~EndsInTwoNewlines(Message)
    /\ Len(Sink) = 1
    /\ HasSuffix(Sink[1], "\n")
    /\ ~EndsInTwoNewlines(Sink[1])

----------------------------------------------------------------------------
(* C10 *)

\* C10: Tag(key, value) on a fur.Error sets the key in the tag map made by the
\* constructor call that produced that value, and in no other: the maps of the links that
\* other constructor calls produced, and the cause of every link, stay as they were.
C10_TagChangesOnlyItsOwnMap ==
    [][\A i \in DOMAIN errs, kv \in TagInputs :
            DoTag(i, kv[1], kv[2]) =>
                /\ errs' = errs
                /\ errs[i].tags = i
                /\ DOMAIN tagmaps' = DOMAIN tagmaps
                /\ Tags(errs[i], tagmaps')[kv[1]] = kv[2]
                /\ \A k \in DOMAIN tagmaps[i] \ {kv[1]} :
                      k \in DOMAIN tagmaps'[i] /\ tagmaps'[i][k] = tagmaps[i][k]
                /\ DOMAIN tagmaps'[i] = DOMAIN tagmaps[i] \cup {kv[1]}
                /\ \A j \in DOMAIN tagmaps : j # i => tagmaps'[j] = tagmaps[j]
                /\ \A j \in DOMAIN errs : LinkCause(errs'[j]) = LinkCause(errs[j])
      ]_vars

\* A link with tags over a link the program built earlier that has none
C10_Witness ==
    \E i, j \in DOMAIN errs :
        /\ LinkCause(errs[j]) = errs[i]
        /\ DOMAIN Tags(errs[j], tagmaps) = {"level", "reply"}
        /\ DOMAIN Tags(errs[i], tagmaps) = {}

----------------------------------------------------------------------------
(* C4 *)

RECURSIVE Flatten(_)
Flatten(ws) == IF ws = <<>> THEN <<>> ELSE Head(ws) \o Flatten(Tail(ws))

\* What thread t has handed to writer w: its diagnostic once printed, its line once written
Delivered(t, w) ==
    IF pc[t] = "idle" THEN <<>>
    ELSE (IF w = "stderr" THEN Flatten(buf[t].r.diag) ELSE <<>>)
            \o (IF w = l.out /\ pc[t] = "done" THEN Flatten(buf[t].r.writes) ELSE <<>>)

\* The orders a set of threads can come in
OrdersOf(D) ==
    { f \in [1..Cardinality(D) -> D] : \A i, j \in 1..Cardinality(D) : i # j => f[i] # f[j] }

RECURSIVE Pieces(_, _)
Pieces(ord, w) == IF ord = <<>> THEN <<>> ELSE Delivered(Head(ord), w) \o Pieces(Tail(ord), w)

\* C4: when threads call Printf on one Logger that is not reconfigured meanwhile, and the
\* sink takes each Write in one piece, the bytes of the sink are at every moment whole
\* lines put one after another, each the line one of the calls rendered.
C4_WholeLines ==
    \A w \in Writers :
        LET D == { t \in DOMAIN pc : Delivered(t, w) # <<>> }
        IN /\ \A t \in D : HasSuffix(Delivered(t, w), "\n")
           /\ \E ord \in OrdersOf(D) : Flatten(out[w]) = Pieces(ord, w)

C4_Witness ==
    /\ \A t \in DOMAIN pc : pc[t] = "done"
    /\ l.out = "buffer"
    /\ Len(out["buffer"]) = Cardinality(DOMAIN pc)
    /\ \E t, u \in DOMAIN pc : buf[t].r.writes # buf[u].r.writes

====
